---- MODULE Spec2Model ----
(***************************************************************************)
(* The generate action of genkit (py/packages/genkit, blocks/generate.py): *)
(* one top-level generate_action call, its recursive continuation turns,   *)
(* the middleware dispatch chain, the streaming chunk bookkeeping and the  *)
(* tool-request resolution.                                                *)
(*                                                                         *)
(* Python values are encoded as follows.  An optional value is a sequence  *)
(* of length at most one: None is << >>, a value v is <<v>>.  A string     *)
(* whose characters matter (a tool name) is the sequence of its            *)
(* characters.  A list is a sequence, an object a record.                  *)
(***************************************************************************)
EXTENDS Integers, Sequences, FiniteSets, TLC

None == << >>
Some(v) == <<v>>
IsNone(o) == Len(o) = 0
Get(o) == o[1]

Last(s) == s[Len(s)]

(***************************************************************************)
(* Bounds of the model.                                                    *)
(***************************************************************************)
\* most chunks the model backend streams during one model invocation
MaxChunksPerTurn == 2
\* most top-level generate calls that reuse one caller-owned middleware list
MaxCalls == 2

(***************************************************************************)
(* Program constants.                                                      *)
(***************************************************************************)
DEFAULT_MAX_TURNS == 5

(***************************************************************************)
(* The registry: the tools, models and formats that names resolve to.      *)
(***************************************************************************)
GetWeather == <<"g", "e", "t">>
Lookup == <<"l", "o", "o", "k">>
\* "mathPlugin/add"
MathAdd == <<"m", "p", "/", "a", "d", "d">>
\* "ns/sub/mul": a name with two path separators
NestedMul == <<"n", "s", "/", "s", "u", "b", "/", "m", "u", "l">>
\* a name no tool is registered under
Ghost == <<"g", "h", "o", "s", "t">>

RegisteredTools == {GetWeather, Lookup, MathAdd, NestedMul}

\* registered models and the supports.context flag of their metadata
DefaultModel == "plainModel"
RegisteredModels == {"plainModel", "contextModel"}
supports_context(model) == model = "contextModel"

\* registry.lookup_action(kind, name): the action registered under name
lookup_action(registered, name) ==
    IF name \in registered THEN Some(name) ELSE None

\* the output of the tool registered as name, run on input
ToolOutput(name, input) == <<"out", name, input>>

(***************************************************************************)
(* Messages and parts.                                                     *)
(***************************************************************************)
TextPart(t) == [kind |-> "text", text |-> t]
ToolRequestPart(name, ref, input) ==
    [kind |-> "toolRequest", name |-> name, ref |-> ref, input |-> input]
ToolResponsePart(name, ref, output) ==
    [kind |-> "toolResponse", name |-> name, ref |-> ref, output |-> output]
\* a text part carrying metadata purpose = p (output instructions, context)
PurposePart(p, t) == [kind |-> "text", text |-> t, purpose |-> p]

Message(role, content) == [role |-> role, content |-> content]

IsToolRequest(part) == part.kind = "toolRequest"
HasPurpose(part, p) == "purpose" \in DOMAIN part /\ part.purpose = p

(***************************************************************************)
(* Output configuration and formats.                                      *)
(***************************************************************************)
\* output.instructions is bool | str | None
InstrNone == [t |-> "none"]
InstrBool(b) == [t |-> "bool", b |-> b]
InstrStr(s) == [t |-> "str", s |-> s]
\* Python truthiness of an instructions option
InstrTruthy(i) ==
    CASE i.t = "none" -> FALSE
      [] i.t = "bool" -> i.b
      [] i.t = "str" -> i.s # ""

OutputConfig(format, constrained, content_type, instructions) ==
    [format |-> format, constrained |-> constrained,
     content_type |-> content_type, instructions |-> instructions]

\* the formats registered under lookup_value('format', name): the config of
\* the FormatDef and the instructions of the formatter it builds
RegisteredFormats == {"json", "text", "draft"}
FormatConfig(name) ==
    CASE name = "json" ->
            [default_instructions |-> None, constrained |-> Some(TRUE),
             content_type |-> Some("application/json"), format |-> Some("json"),
             instructions |-> Some("reply in json")]
      [] name = "text" ->
            [default_instructions |-> Some(FALSE), constrained |-> None,
             content_type |-> Some("text/plain"), format |-> None,
             instructions |-> None]
      [] name = "draft" ->
            [default_instructions |-> None, constrained |-> Some(FALSE),
             content_type |-> None, format |-> None,
             instructions |-> Some("reply as draft")]

(***************************************************************************)
(* to_tool_definition: the name exposed to the model is the part of the    *)
(* registered name after its last '/'.                                     *)
(***************************************************************************)
\* str.rfind(c) + 1: the 1-based position of the last c in s, 0 when absent
rfind(s, c) ==
    LET at == {i \in 1..Len(s) : s[i] = c}
    IN  IF at = {} THEN 0 ELSE CHOOSE i \in at : \A j \in at : j <= i

Contains(s, c) == \E i \in 1..Len(s) : s[i] = c

to_tool_definition(tool) ==
    LET original_name == tool
        name == IF Contains(original_name, "/")
                THEN SubSeq(original_name, rfind(original_name, "/") + 1,
                            Len(original_name))
                ELSE original_name
        metadata == IF original_name # name
                    THEN Some([originalName |-> original_name])
                    ELSE None
    IN  [name |-> name, metadata |-> metadata]

(***************************************************************************)
(* resolve_parameters                                                      *)
(***************************************************************************)
default_model == Some(DefaultModel)

resolve_parameters(request) ==
    LET model == IF ~IsNone(request.model) THEN request.model ELSE default_model
        model_action == IF IsNone(model) THEN None
                        ELSE lookup_action(RegisteredModels, Get(model))
        missing == {i \in 1..Len(request.tools) :
                        IsNone(lookup_action(RegisteredTools, request.tools[i]))}
        wants_format == ~IsNone(request.output)
                        /\ ~IsNone(Get(request.output).format)
        format_name == Get(Get(request.output).format)
    IN  IF IsNone(model) THEN [error |-> Some("No model configured.")]
        ELSE IF IsNone(model_action)
        THEN [error |-> Some("Failed to to resolve model")]
        ELSE IF missing # {} THEN [error |-> Some("Unable to resolve tool")]
        ELSE IF wants_format /\ format_name \notin RegisteredFormats
        THEN [error |-> Some("Unable to resolve format")]
        ELSE [error |-> None, model |-> Get(model_action),
              tools |-> request.tools,
              format_def |-> IF wants_format THEN Some(format_name) ELSE None]

(***************************************************************************)
(* apply_format and its helpers                                            *)
(***************************************************************************)
resolve_instructions(formatter, instructions_opt) ==
    IF instructions_opt.t = "str" THEN Some(instructions_opt.s)
    ELSE IF instructions_opt.t = "bool" /\ ~instructions_opt.b THEN None
    ELSE IF IsNone(formatter) THEN None
    ELSE FormatConfig(Get(formatter)).instructions

\* genkit.blocks.messages.inject_instructions: nothing to do without
\* instructions or when output instructions are already present; otherwise the
\* instructions become a further part of the last user message
inject_instructions(messages, instructions) ==
    LET users == {i \in 1..Len(messages) : messages[i].role = "user"}
        done == \E i \in 1..Len(messages) :
                    \E k \in 1..Len(messages[i].content) :
                        HasPurpose(messages[i].content[k], "output")
        target == CHOOSE i \in users : \A j \in users : j <= i
    IN  IF IsNone(instructions) \/ Get(instructions) = "" THEN messages
        ELSE IF done \/ users = {} THEN messages
        ELSE [messages EXCEPT ![target].content =
                    Append(@, PurposePart("output", Get(instructions)))]

\* lines 316-319 with the two assignments in the opposite order: the Format's
\* directive overrides the request's
format_constrained_wins(config, output) ==
    IF ~IsNone(config.constrained) THEN config.constrained ELSE output.constrained

\* lines 316-319: the Format's constrained directive, overridden by the request's
effective_constrained(config, output) ==
    LET from_format == IF ~IsNone(config.constrained)
                       THEN config.constrained ELSE output.constrained
    IN  IF ~IsNone(output.constrained) THEN output.constrained ELSE from_format

\* lines 321-322
effective_content_type(config, output) ==
    IF ~IsNone(config.content_type) THEN config.content_type ELSE output.content_type

\* lines 323-324
effective_format(config, output) ==
    IF ~IsNone(config.format) THEN config.format ELSE output.format

apply_format(raw_request, format_def) ==
    IF IsNone(format_def) THEN [request |-> raw_request, formatter |-> None]
    ELSE
      LET config == FormatConfig(Get(format_def))
          formatter == format_def
          has_output == ~IsNone(raw_request.output)
          output == Get(raw_request.output)
          instructions ==
              resolve_instructions(formatter,
                  IF has_output THEN output.instructions ELSE InstrNone)
          inject == IF has_output
                    THEN config.default_instructions # Some(FALSE)
                         \/ InstrTruthy(output.instructions)
                    ELSE FALSE
          messages == IF inject
                      THEN inject_instructions(raw_request.messages, instructions)
                      ELSE raw_request.messages
          constrained == effective_constrained(config, output)
          content_type == effective_content_type(config, output)
          format == effective_format(config, output)
      IN  [request |->
              [raw_request EXCEPT
                  !.messages = messages,
                  !.output = Some([output EXCEPT !.constrained = constrained,
                                                 !.content_type = content_type,
                                                 !.format = format])],
           formatter |-> formatter]

apply_transfer_preamble(next_request, preamble) == next_request

(***************************************************************************)
(* action_to_generate_request                                              *)
(***************************************************************************)
action_to_generate_request(options, resolved_tools, model) ==
    LET tool_defs == [i \in 1..Len(resolved_tools) |->
                          to_tool_definition(resolved_tools[i])]
        has_output == ~IsNone(options.output)
    IN  [messages |-> options.messages,
         config |-> IF ~IsNone(options.config) THEN Get(options.config) ELSE << >>,
         docs |-> options.docs,
         tools |-> tool_defs,
         output |-> [content_type |-> IF has_output
                                      THEN Get(options.output).content_type ELSE None,
                     format |-> IF has_output
                                THEN Get(options.output).format ELSE None,
                     constrained |-> IF has_output
                                     THEN Get(options.output).constrained ELSE None]]

(***************************************************************************)
(* Object identity. A request is an object holding a reference to its      *)
(* message list and one to its output configuration; a record of flags     *)
(* says which of the three are the objects the caller passed in.           *)
(***************************************************************************)
\* line 58: the raw_request argument of the top-level call is the caller's
CallerObject == [self |-> TRUE, messages |-> TRUE, output |-> TRUE]

NoCallerObject == [self |-> FALSE, messages |-> FALSE, output |-> FALSE]

\* line 270, copy.copy(raw_request): a new request object that refers to the
\* same message list and output configuration
copy_copy(sh) == [sh EXCEPT !.self = FALSE]

\* line 295, copy.deepcopy(raw_request): nothing is shared with the original
deepcopy(sh) == NoCallerObject

\* lines 292-295: apply_format returns raw_request itself or works on a deep copy
apply_format_object(sh, format_def) == IF IsNone(format_def) THEN sh ELSE deepcopy(sh)

\* lines 312-324 as the caller sees them: out_request.messages is assigned, the
\* attributes of out_request.output are written in place
after_apply_format(caller, out_request, sh) ==
    [caller EXCEPT !.messages = IF sh.self THEN out_request.messages ELSE @,
                   !.output = IF sh.output THEN out_request.output ELSE @]

\* the message list is used as it is, without the copy of line 271
same_messages(sh) == sh

\* line 271, copy.copy(raw_request.messages): a new list
copy_messages(sh) == [sh EXCEPT !.messages = FALSE]

\* lines 270-271: the objects of next_request
next_request_object(sh) == copy_messages(copy_copy(sh))

\* lines 272-274 as the caller sees them: two appends to next_messages, and
\* next_request.messages is assigned
after_next_request(caller, model_msg, tool_msg, next_messages, sh) ==
    [caller EXCEPT !.messages = IF sh.messages THEN @ \o <<model_msg, tool_msg>>
                                ELSE IF sh.self THEN next_messages ELSE @]

(***************************************************************************)
(* State.                                                                  *)
(***************************************************************************)
VARIABLES
    pc,               \* where the top-level call stands
    calls,            \* top-level generate calls made so far
    callerMiddleware, \* the list object the caller owns and passes as middleware
    callerRequest,    \* the request object the caller passed to the top-level call
    shares,           \* which objects of the invocation's request are the caller's
    args,             \* the arguments of the running generate_action invocation
    raw_request,      \* generate_action's raw_request after apply_format
    request,          \* the GenerateRequest built for this turn
    formatter,        \* the formatter of this turn, or None
    middleware,       \* the middleware list this turn dispatches through
    aliased,          \* whether middleware is the caller's list object
    message_index,    \* make_chunk's nonlocal message_index
    prev_chunks,      \* make_chunk's prev_chunks
    chunk_role,       \* make_chunk's nonlocal chunk_role
    index,            \* dispatch: the position in the middleware list
    req,              \* dispatch: the request as passed along the chain
    chain,            \* the middleware entered by this turn's dispatch so far
    generated_msg,    \* the message of this turn's response
    tool_idx,         \* resolve_tool_requests: the tool request handled next
    response_parts,   \* resolve_tool_requests: the tool responses built so far
    model_calls,      \* every invocation of the model backend, in order
    delivered,        \* every chunk handed to the streaming callback, in order
    tool_log,         \* every tool invocation, in order
    turn_log,         \* the arguments of every generate_action invocation
    outcome           \* how the top-level call ended

callerVars == <<calls, callerMiddleware, callerRequest>>
turnVars == <<args, shares, raw_request, request, formatter, middleware, aliased>>
chunkVars == <<message_index, prev_chunks, chunk_role, delivered>>
dispatchVars == <<index, req, chain>>
toolVars == <<generated_msg, tool_idx, response_parts, tool_log>>
vars == <<pc, callerVars, turnVars, chunkVars, dispatchVars, toolVars,
          model_calls, turn_log, outcome>>

(***************************************************************************)
(* The requests, callbacks, middleware and contexts a caller supplies.     *)
(***************************************************************************)
BaseMessages ==
    << Message("system", <<TextPart("be brief")>>),
       Message("user", <<TextPart("question")>>) >>

GenerateActionOptions(model, tools, max_turns, return_tool_requests, docs, output) ==
    [messages |-> BaseMessages, model |-> model, tools |-> tools,
     max_turns |-> max_turns, return_tool_requests |-> return_tool_requests,
     docs |-> docs, output |-> output, config |-> None]

NoOutput == None
JsonOutput == Some(OutputConfig(Some("json"), None, None, InstrNone))
TextOutput == Some(OutputConfig(Some("text"), Some(TRUE), None, InstrStr("one word")))

CallerMiddlewareLists == {<< >>, <<"mwA">>, <<"mwA", "mwB">>}
Contexts == {None, Some("auth")}

(***************************************************************************)
(* Init: nothing called yet.                                               *)
(***************************************************************************)
NoMessage == Message("none", << >>)
NoOutcome == [kind |-> "none", error |-> "", status |-> "",
              message |-> NoMessage, request |-> None]
NoArgs == [raw_request |-> GenerateActionOptions(None, << >>, None, FALSE, << >>, None),
           on_chunk |-> FALSE, message_index |-> 0, current_turn |-> 0,
           middleware |-> None, context |-> None]

Init ==
    /\ pc = "idle"
    /\ calls = 0
    /\ callerMiddleware \in CallerMiddlewareLists
    /\ callerRequest = NoArgs.raw_request
    /\ shares = NoCallerObject
    /\ args = NoArgs
    /\ raw_request = NoArgs.raw_request
    /\ request = action_to_generate_request(NoArgs.raw_request, << >>, DefaultModel)
    /\ formatter = None
    /\ middleware = << >>
    /\ aliased = FALSE
    /\ message_index = 0
    /\ prev_chunks = << >>
    /\ chunk_role = "model"
    /\ index = 0
    /\ req = request
    /\ chain = << >>
    /\ generated_msg = NoMessage
    /\ tool_idx = 1
    /\ response_parts = << >>
    /\ model_calls = << >>
    /\ delivered = << >>
    /\ tool_log = << >>
    /\ turn_log = << >>
    /\ outcome = NoOutcome

(***************************************************************************)
(* The top-level call: generate_action(registry, raw_request, on_chunk,    *)
(* middleware=..., context=...), message_index and current_turn at their   *)
(* defaults.                                                               *)
(***************************************************************************)
Generate(raw, stream, mw, ctx) ==
    /\ pc \in {"idle", "returned", "raised"}
    /\ calls < MaxCalls
    /\ calls' = calls + 1
    /\ callerRequest' = raw
    /\ shares' = CallerObject
    /\ args' = [raw_request |-> raw, on_chunk |-> stream, message_index |-> 0,
                current_turn |-> 0, middleware |-> mw, context |-> ctx]
    /\ turn_log' = <<args'>>
    /\ model_calls' = << >>
    /\ delivered' = << >>
    /\ tool_log' = << >>
    /\ outcome' = NoOutcome
    /\ pc' = "called"
    \* the locals of the invocation: nothing of an earlier call is left in them
    /\ raw_request' = NoArgs.raw_request
    /\ request' = action_to_generate_request(NoArgs.raw_request, << >>, DefaultModel)
    /\ formatter' = None
    /\ middleware' = << >>
    /\ aliased' = FALSE
    /\ message_index' = 0
    /\ prev_chunks' = << >>
    /\ chunk_role' = "model"
    /\ index' = 0
    /\ req' = request'
    /\ chain' = << >>
    /\ generated_msg' = NoMessage
    /\ tool_idx' = 1
    /\ response_parts' = << >>
    /\ UNCHANGED callerMiddleware

(***************************************************************************)
(* generate_action, lines 79-154 and the call of dispatch(0, request, ...) *)
(***************************************************************************)
\* the list the invocation works on once "if not middleware: middleware = []"
\* has run, and whether it is the caller's list object
PassedMiddleware == IF IsNone(args.middleware) THEN << >> ELSE callerMiddleware
KeepsCallerList == Len(PassedMiddleware) > 0

\* lines 146-154: whether augment_with_context is added to the list
AddsContextMiddleware(raw, model) == Len(raw.docs) > 0 /\ ~supports_context(model)

\* line 154 with the context middleware put in front of the list
prepend_context_middleware(list) == <<"augment_with_context">> \o list

\* line 154: middleware.append(augment_with_context())
add_context_middleware(list) == Append(list, "augment_with_context")

StartTurn ==
    /\ pc = "called"
    /\ LET resolved == resolve_parameters(args.raw_request)
       IN  IF ~IsNone(resolved.error)
           THEN /\ pc' = "raised"
                /\ outcome' = [NoOutcome EXCEPT !.kind = "error",
                                                !.error = Get(resolved.error)]
                /\ UNCHANGED <<callerMiddleware, callerRequest, shares, raw_request,
                               request, formatter, middleware, aliased,
                               message_index, prev_chunks, chunk_role, dispatchVars>>
           ELSE LET formatted == apply_format(args.raw_request, resolved.format_def)
                    normalized == action_to_generate_request(
                                      formatted.request, resolved.tools, resolved.model)
                    adds == AddsContextMiddleware(formatted.request, resolved.model)
                    list == IF adds THEN add_context_middleware(PassedMiddleware)
                            ELSE PassedMiddleware
                IN  /\ raw_request' = formatted.request
                    /\ shares' = apply_format_object(shares, resolved.format_def)
                    /\ callerRequest' =
                           IF IsNone(resolved.format_def) THEN callerRequest
                           ELSE after_apply_format(callerRequest, formatted.request,
                                                   shares')
                    /\ formatter' = formatted.formatter
                    /\ request' = normalized
                    /\ prev_chunks' = << >>
                    /\ chunk_role' = "model"
                    /\ message_index' = args.message_index
                    /\ middleware' = list
                    /\ aliased' = KeepsCallerList
                    /\ callerMiddleware' = IF KeepsCallerList THEN list
                                           ELSE callerMiddleware
                    /\ index' = 0
                    /\ req' = normalized
                    /\ chain' = << >>
                    /\ pc' = "dispatch"
                    /\ UNCHANGED outcome
    /\ UNCHANGED <<calls, args, delivered, toolVars, model_calls, turn_log>>

(***************************************************************************)
(* make_chunk and wrap_chunks                                              *)
(***************************************************************************)
\* make_chunk(role, chunk): the new message_index, chunk_role and prev_chunks,
\* and the wrapped chunk that goes to the callback
make_chunk(role, chunk) ==
    LET new_index == IF role # chunk_role /\ Len(prev_chunks) > 0
                     THEN message_index + 1 ELSE message_index
    IN  [message_index |-> new_index,
         chunk_role |-> role,
         prev_chunks |-> Append(prev_chunks, chunk),
         wrapper |-> [chunk |-> chunk, role |-> role, index |-> new_index,
                      previous_chunks |-> prev_chunks]]

\* on_chunk(make_chunk(role, chunk)) for the model's chunks only: the tool
\* message of lines 259-268 is not streamed
SendChunk_model_only(role, chunk) ==
    LET made == make_chunk(role, chunk)
    IN  IF role = "tool"
        THEN UNCHANGED <<message_index, chunk_role, prev_chunks, delivered>>
        ELSE /\ message_index' = made.message_index
             /\ chunk_role' = made.chunk_role
             /\ prev_chunks' = made.prev_chunks
             /\ delivered' = Append(delivered, made.wrapper)

\* on_chunk(make_chunk(role, chunk))
SendChunk(role, chunk) ==
    LET made == make_chunk(role, chunk)
    IN  /\ message_index' = made.message_index
        /\ chunk_role' = made.chunk_role
        /\ prev_chunks' = made.prev_chunks
        /\ delivered' = Append(delivered, made.wrapper)

(***************************************************************************)
(* generate_action, lines 199-236: what follows the return of dispatch     *)
(***************************************************************************)
tool_requests_of(message) == SelectSeq(message.content, IsToolRequest)

max_iters(raw) ==
    IF ~IsNone(raw.max_turns) /\ Get(raw.max_turns) # 0
    THEN Get(raw.max_turns) ELSE DEFAULT_MAX_TURNS

\* line 230 never true: no turn bound
never_exceeds_max_turns(current_turn, raw) == FALSE

\* line 230: the turn bound is exceeded
exceeds_max_turns(current_turn, raw) == current_turn + 1 > max_iters(raw)

\* line 221 without "len(tool_requests) == 0": only the flag ends the turn
is_terminal_flag_only(raw, tool_requests) == raw.return_tool_requests

\* line 221 without "raw_request.return_tool_requests": the flag is ignored
is_terminal_ignoring_flag(raw, tool_requests) == Len(tool_requests) = 0

\* line 221: the turn ends the exchange with a response
is_terminal(raw, tool_requests) ==
    raw.return_tool_requests \/ Len(tool_requests) = 0

\* the aborted error carrying the request of the turn that would follow: the
\* request's messages with the model's message added
aborted_error_with_following_request(message, r) ==
    [kind |-> "error", error |-> "GenerationResponseError", status |-> "ABORTED",
     message |-> message,
     request |-> Some([r EXCEPT !.messages = Append(@, message)])]

\* lines 231-236 and 552-574: GenerationResponseError(response, message,
\* status='ABORTED', details={'request': request})
aborted_error(message, r) ==
    [kind |-> "error", error |-> "GenerationResponseError", status |-> "ABORTED",
     message |-> message, request |-> Some(r)]

AfterDispatch(message, valid, schema_valid) ==
    LET tool_requests == tool_requests_of(message)
    IN  /\ generated_msg' = message
        /\ tool_idx' = 1
        /\ response_parts' = << >>
        /\ IF ~valid
           THEN /\ pc' = "raised"
                /\ outcome' = [NoOutcome EXCEPT !.kind = "error",
                                                !.error = "invalid response",
                                                !.message = message]
           ELSE IF is_terminal(raw_request, tool_requests)
           THEN IF Len(tool_requests) = 0 /\ ~schema_valid
                THEN /\ pc' = "raised"
                     /\ outcome' = [NoOutcome EXCEPT !.kind = "error",
                                                     !.error = "invalid schema",
                                                     !.message = message]
                ELSE /\ pc' = "returned"
                     /\ outcome' = [NoOutcome EXCEPT !.kind = "response",
                                                     !.message = message,
                                                     !.request = Some(request)]
           ELSE IF exceeds_max_turns(args.current_turn, raw_request)
           THEN /\ pc' = "raised"
                /\ outcome' = aborted_error(message, request)
           ELSE /\ pc' = "tools"
                /\ UNCHANGED outcome

(***************************************************************************)
(* dispatch                                                                *)
(***************************************************************************)
\* a caller-supplied middleware that passes a modified request to next
modified_req(name, r) == [r EXCEPT !.config = Append(@, name)]

\* genkit.blocks.middleware.augment_with_context: the documents become a
\* context part of the last user message of the request passed to next
augment_with_context(r) ==
    LET users == {i \in 1..Len(r.messages) : r.messages[i].role = "user"}
        target == CHOOSE i \in users : \A j \in users : j <= i
    IN  IF Len(r.docs) = 0 \/ users = {} THEN r
        ELSE [r EXCEPT !.messages[target].content =
                            Append(@, PurposePart("context", r.docs))]

\* line 169 comparing against the index of the last middleware: the last
\* middleware of the list is not entered
at_end_of_chain_before_last(list, i) == Len(list) = 0 \/ i = Len(list) - 1

\* line 169: the end of the chain
at_end_of_chain(list, i) == Len(list) = 0 \/ i = Len(list)

\* lines 169-177: the end of the chain invokes the model backend
InvokeModel ==
    /\ pc = "dispatch"
    /\ at_end_of_chain(middleware, index)
    /\ model_calls' = Append(model_calls,
            [current_turn |-> args.current_turn, input |-> req,
             context |-> args.context, streaming |-> args.on_chunk,
             chain |-> chain])
    /\ pc' = "model"
    /\ UNCHANGED <<callerVars, turnVars, chunkVars, dispatchVars, toolVars,
                   turn_log, outcome>>

\* lines 179-188: middleware[index] is entered and calls next_fn
MiddlewareNext(move) ==
    /\ pc = "dispatch"
    /\ ~at_end_of_chain(middleware, index)
    /\ LET current_middleware == middleware[index + 1]
       IN  /\ chain' = Append(chain, current_middleware)
           /\ req' = IF current_middleware = "augment_with_context"
                     THEN augment_with_context(req)
                     ELSE IF move = "modify"
                     THEN modified_req(current_middleware, req)
                     ELSE req
           /\ current_middleware = "augment_with_context" => move = "next"
    /\ index' = index + 1
    /\ UNCHANGED <<pc, callerVars, turnVars, chunkVars, toolVars, model_calls,
                   turn_log, outcome>>

\* lines 179-188: middleware[index] is entered and returns a response of its
\* own without calling next_fn
MiddlewareShortCircuit ==
    /\ pc = "dispatch"
    /\ ~at_end_of_chain(middleware, index)
    /\ middleware[index + 1] # "augment_with_context"
    /\ chain' = Append(chain, middleware[index + 1])
    /\ AfterDispatch(Message("model", <<TextPart(middleware[index + 1])>>),
                     TRUE, TRUE)
    /\ UNCHANGED <<callerVars, turnVars, chunkVars, index, req, tool_log,
                   model_calls, turn_log>>

(***************************************************************************)
(* The model backend: it may stream chunks, then it returns a message.     *)
(***************************************************************************)
\* the replies of a model that was given the tool definitions of input
ModelReplies(input) ==
    LET names == {input.tools[i].name : i \in 1..Len(input.tools)} \cup {Ghost}
    IN  {<<TextPart("final")>>}
        \cup {<<ToolRequestPart(n, "r1", "i1")>> : n \in names}
        \cup {<<ToolRequestPart(n[1], "r1", "i1"), TextPart("note"),
                ToolRequestPart(n[2], "r2", "i2")>> :
                    n \in {m \in names \X names : m[1] # m[2]}}

\* line 175 and wrap_chunks: a chunk the model streams goes to the callback
ModelChunk ==
    /\ pc = "model"
    /\ args.on_chunk
    /\ Len(prev_chunks) < MaxChunksPerTurn
    /\ SendChunk("model", [role |-> "model",
                           content |-> <<args.current_turn, Len(prev_chunks) + 1>>])
    /\ UNCHANGED <<pc, callerVars, turnVars, dispatchVars, toolVars, model_calls,
                   turn_log, outcome>>

ModelReturn(content, valid, schema_valid) ==
    /\ pc = "model"
    /\ AfterDispatch(Message("model", content), valid, schema_valid)
    /\ UNCHANGED <<callerVars, turnVars, chunkVars, dispatchVars, tool_log,
                   model_calls, turn_log>>

(***************************************************************************)
(* resolve_tool_requests                                                   *)
(***************************************************************************)
\* resolve_tool(registry, tool_name)
resolve_tool(tool_name) == lookup_action(RegisteredTools, tool_name)

\* lines 512-514: the tools of the request, by the name the request gives them
tool_dict(raw) ==
    [tool_name \in {raw.tools[i] : i \in 1..Len(raw.tools)} |->
        resolve_tool(tool_name)]

\* lines 522-530 with the response part put in front of the earlier ones
prepend_response(parts, tool_request, tool_response) ==
    <<ToolResponsePart(tool_request.name, tool_request.ref, tool_response)>> \o parts

\* lines 522-530: the response part built for a tool request and appended
append_response(parts, tool_request, tool_response) ==
    Append(parts, ToolResponsePart(tool_request.name, tool_request.ref, tool_response))

\* lines 517-530 with an unknown tool request passed over instead of raising
ToolCall_skipping_unknown ==
    /\ pc = "tools"
    /\ tool_idx <= Len(tool_requests_of(generated_msg))
    /\ LET tool_request == tool_requests_of(generated_msg)[tool_idx]
           tools == tool_dict(raw_request)
       IN  IF tool_request.name \notin DOMAIN tools
           THEN /\ tool_idx' = tool_idx + 1
                /\ UNCHANGED <<pc, outcome, response_parts, tool_log>>
           ELSE LET tool == Get(tools[tool_request.name])
                    tool_response == ToolOutput(tool, tool_request.input)
                IN  /\ tool_log' = Append(tool_log,
                            [tool |-> tool, input |-> tool_request.input,
                             current_turn |-> args.current_turn])
                    /\ response_parts' =
                            append_response(response_parts, tool_request, tool_response)
                    /\ tool_idx' = tool_idx + 1
                    /\ UNCHANGED <<pc, outcome>>
    /\ UNCHANGED <<callerVars, turnVars, chunkVars, dispatchVars, generated_msg,
                   model_calls, turn_log>>

\* lines 517-530, one pass of the loop: the next tool request is looked up
\* and its tool is run
ToolCall ==
    /\ pc = "tools"
    /\ tool_idx <= Len(tool_requests_of(generated_msg))
    /\ LET tool_request == tool_requests_of(generated_msg)[tool_idx]
           tools == tool_dict(raw_request)
       IN  IF tool_request.name \notin DOMAIN tools
           THEN /\ pc' = "raised"
                /\ outcome' = [NoOutcome EXCEPT !.kind = "error",
                                                !.error = "RuntimeError",
                                                !.message = generated_msg]
                /\ UNCHANGED <<tool_idx, response_parts, tool_log>>
           ELSE LET tool == Get(tools[tool_request.name])
                    tool_response == ToolOutput(tool, tool_request.input)
                IN  /\ tool_log' = Append(tool_log,
                            [tool |-> tool, input |-> tool_request.input,
                             current_turn |-> args.current_turn])
                    /\ response_parts' =
                            append_response(response_parts, tool_request, tool_response)
                    /\ tool_idx' = tool_idx + 1
                    /\ UNCHANGED <<pc, outcome>>
    /\ UNCHANGED <<callerVars, turnVars, chunkVars, dispatchVars, generated_msg,
                   model_calls, turn_log>>

(***************************************************************************)
(* generate_action, lines 259-285: the tool message is streamed and the    *)
(* function calls itself for the next turn.                                *)
(***************************************************************************)
\* lines 270-275
next_request_of(raw, model_msg, tool_msg) ==
    apply_transfer_preamble(
        [raw EXCEPT !.messages = raw.messages \o <<model_msg, tool_msg>>], None)

\* lines 278-285 with message_index passed on as it is, without the + 1
recursive_call_args_same_index(next_request, index_now) ==
    [raw_request |-> next_request,
     on_chunk |-> args.on_chunk,
     message_index |-> index_now,
     current_turn |-> args.current_turn + 1,
     middleware |-> None,
     context |-> None]

\* lines 278-285: the arguments of the recursive call; index_now is the value
\* of message_index when the call is made
recursive_call_args(next_request, index_now) ==
    [raw_request |-> next_request,
     on_chunk |-> args.on_chunk,
     message_index |-> index_now + 1,
     current_turn |-> args.current_turn + 1,
     middleware |-> None,
     context |-> None]

Continue ==
    /\ pc = "tools"
    /\ tool_idx > Len(tool_requests_of(generated_msg))
    /\ LET tool_msg == Message("tool", response_parts)
       IN  /\ IF args.on_chunk
              THEN SendChunk("tool", [role |-> tool_msg.role,
                                      content |-> tool_msg.content])
              ELSE UNCHANGED chunkVars
           /\ args' = recursive_call_args(
                          next_request_of(raw_request, generated_msg, tool_msg),
                          message_index')
           /\ shares' = next_request_object(shares)
           /\ callerRequest' =
                  after_next_request(callerRequest, generated_msg, tool_msg,
                                     args'.raw_request.messages, shares')
    /\ turn_log' = Append(turn_log, args')
    /\ pc' = "called"
    /\ UNCHANGED <<calls, callerMiddleware, raw_request, request, formatter,
                   middleware, aliased, dispatchVars, toolVars, model_calls, outcome>>

(***************************************************************************)
(* The calls the model explores.                                           *)
(***************************************************************************)
Call(raw, on_chunk, mw, context) ==
    [raw |-> raw, on_chunk |-> on_chunk, middleware |-> mw, context |-> context]

Caller == Some("caller")

\* every max_turns value, with and without return_tool_requests
TurnCalls ==
    { Call(GenerateActionOptions(None, <<GetWeather>>, mt, rtr, << >>, NoOutput),
           FALSE, None, None) :
        mt \in {None, Some(-1), Some(0), Some(1), Some(2)}, rtr \in BOOLEAN }
\* streaming over up to three turns
StreamCalls ==
    { Call(GenerateActionOptions(None, <<GetWeather>>, Some(2), rtr, << >>, out),
           TRUE, None, None) :
        rtr \in BOOLEAN, out \in {NoOutput, JsonOutput} }
\* plain, namespaced and unregistered tool names
ToolCalls ==
    { Call(GenerateActionOptions(None, tools, Some(1), FALSE, << >>, NoOutput),
           on_chunk, None, None) :
        tools \in {<< >>, <<MathAdd>>, <<GetWeather, Lookup>>,
                   <<Lookup, NestedMul>>, <<Ghost>>},
        on_chunk \in BOOLEAN }
\* middleware, run context, documents and models
ChainCalls ==
    { Call(GenerateActionOptions(m, <<GetWeather>>, Some(1), FALSE, docs, NoOutput),
           FALSE, mw, ctx) :
        m \in {None, Some("contextModel"), Some("ghostModel")},
        docs \in {<< >>, <<"doc">>},
        mw \in {None, Caller},
        ctx \in Contexts }
\* output formats
FormatCalls ==
    { Call(GenerateActionOptions(None, <<GetWeather>>, Some(1), FALSE, << >>, out),
           FALSE, None, None) :
        out \in {JsonOutput, TextOutput,
                 Some(OutputConfig(Some("draft"), None, None, InstrBool(FALSE))),
                 Some(OutputConfig(Some("yaml"), None, None, InstrNone)),
                 Some(OutputConfig(None, None, None, InstrNone))} }

\* every registered format against every explicit choice of the request
ExplicitConstrained == {None, Some(TRUE), Some(FALSE)}

ExplicitContentTypes == {None, Some("text/csv")}

PrecedenceCalls ==
    { Call(GenerateActionOptions(None, << >>, Some(1), FALSE, << >>,
                                 Some(OutputConfig(f, c, ct, InstrNone))),
           FALSE, None, None) :
        f \in {None} \cup {Some(n) : n \in RegisteredFormats},
        c \in ExplicitConstrained, ct \in ExplicitContentTypes }

Calls ==
    TurnCalls \cup StreamCalls \cup ToolCalls \cup ChainCalls \cup FormatCalls
        \cup PrecedenceCalls

Next ==
    \/ \E c \in Calls : Generate(c.raw, c.on_chunk, c.middleware, c.context)
    \/ StartTurn
    \/ InvokeModel
    \/ \E move \in {"next", "modify"} : MiddlewareNext(move)
    \/ MiddlewareShortCircuit
    \/ ModelChunk
    \/ \E content \in ModelReplies(req) :
          \E ok \in {<<TRUE, TRUE>>, <<TRUE, FALSE>>, <<FALSE, TRUE>>} :
              ModelReturn(content, ok[1], ok[2])
    \/ ToolCall
    \/ Continue

Spec == Init /\ [][Next]_vars

\* a step of the running call: dispatch, the model backend, a tool, the
\* recursive call
Step ==
    \/ StartTurn
    \/ InvokeModel
    \/ \E move \in {"next", "modify"} : MiddlewareNext(move)
    \/ MiddlewareShortCircuit
    \/ ModelChunk
    \/ \E content \in ModelReplies(req) :
          \E ok \in {<<TRUE, TRUE>>, <<TRUE, FALSE>>, <<FALSE, TRUE>>} :
              ModelReturn(content, ok[1], ok[2])
    \/ ToolCall
    \/ Continue

\* the calls termination is checked for: every max_turns value, a streaming
\* call and a call through caller middleware
LiveCalls ==
    TurnCalls
        \cup {c \in StreamCalls :
                ~c.raw.return_tool_requests /\ c.raw.output = NoOutput}
        \cup {c \in ChainCalls :
                /\ c.middleware = Caller /\ c.context = None
                /\ c.raw.docs = << >> /\ c.raw.model = None}

NextLive ==
    \/ \E c \in LiveCalls : Generate(c.raw, c.on_chunk, c.middleware, c.context)
    \/ Step

\* every awaited model, middleware and tool invocation returns: a running
\* call goes on stepping
FairSpec == Init /\ [][NextLive]_vars /\ WF_vars(Step)

(***************************************************************************)
(* Properties.                                                             *)
(***************************************************************************)
HasToolRequests(message) == Len(tool_requests_of(message)) > 0
\* this turn's dispatch reached the model backend
ModelReplied ==
    /\ Len(model_calls) > 0
    /\ Last(model_calls).current_turn = args.current_turn
\* a response of this turn is at hand
Replied == generated_msg # NoMessage /\ pc \in {"returned", "raised", "tools"}
\* the tool invocations made during turn t
ToolsRunIn(t) == SelectSeq(tool_log, LAMBDA e : e.current_turn = t)
Aborted == pc = "raised" /\ outcome.status = "ABORTED"

\* C1: with an effective turn bound N >= 1, a call that ends with the aborted
\* error has invoked the model at most N times; with N = 1 the error follows
\* the first reply, after exactly one model invocation.
C1_AbortsWithinMaxTurns ==
    (Aborted /\ max_iters(callerRequest) >= 1)
        => Len(model_calls) <= max_iters(callerRequest)

\* C2: a valid reply without tool-request parts ends the exchange in that turn:
\* generate returns the model's message, no tool runs in the turn, and from
\* the first turn exactly one model invocation has happened.
C2_NoToolRequestIsTerminal ==
    (Replied /\ ~HasToolRequests(generated_msg)) =>
        /\ pc \in {"returned", "raised"}
        /\ pc = "raised" => outcome.error \in {"invalid response", "invalid schema"}
        /\ pc = "returned" => /\ outcome.kind = "response"
                              /\ outcome.message = generated_msg
        /\ ToolsRunIn(args.current_turn) = << >>
        /\ (ModelReplied /\ args.current_turn = 0) =>
                /\ Len(model_calls) = 1
                /\ tool_log = << >>
                /\ Len(turn_log) = 1

C2_Witness ==
    /\ pc = "returned"
    /\ ModelReplied
    /\ args.current_turn = 0
    /\ ~HasToolRequests(generated_msg)
    /\ outcome.message = generated_msg

\* C3: with return_tool_requests set, a valid reply that holds tool-request
\* parts is returned as the response: no tool runs, no further turn starts and
\* no aborted error is raised, whatever the turn count and max_turns are.
C3_ReturnToolRequestsIsTerminal ==
    (Replied /\ raw_request.return_tool_requests /\ HasToolRequests(generated_msg)) =>
        /\ pc \in {"returned", "raised"}
        /\ pc = "raised" => outcome.error = "invalid response"
        /\ pc = "returned" => /\ outcome.kind = "response"
                              /\ outcome.message = generated_msg
        /\ ~Aborted
        /\ tool_log = << >>
        /\ Len(turn_log) = 1

C3_Witness ==
    /\ pc = "returned"
    /\ raw_request.return_tool_requests
    /\ HasToolRequests(generated_msg)
    /\ exceeds_max_turns(args.current_turn, raw_request)
    /\ outcome.message = generated_msg

\* C4: the tool requests of a message are run one at a time in the order of
\* their parts; the i-th response part carries the name and ref of the i-th
\* request and the output of the tool of that name, and when all k requests
\* name tools of the request the next turn's last message is one tool message
\* holding exactly these k parts.
ExpectedResponse(tool_request) ==
    ToolResponsePart(tool_request.name, tool_request.ref,
                     ToolOutput(tool_request.name, tool_request.input))
C4_ToolResponsesInRequestOrder ==
    LET requests == tool_requests_of(generated_msg)
        ran == ToolsRunIn(args.current_turn)
        continued == pc = "called" /\ Len(turn_log) > 1
    IN  /\ pc = "tools" =>
            /\ Len(response_parts) = tool_idx - 1
            /\ Len(ran) = tool_idx - 1
            /\ \A i \in 1..Len(response_parts) :
                  /\ response_parts[i] = ExpectedResponse(requests[i])
                  /\ ran[i].tool = requests[i].name
                  /\ ran[i].input = requests[i].input
        /\ continued =>
            LET tool_msg == Last(args.raw_request.messages)
            IN  /\ tool_msg.role = "tool"
                /\ Len(tool_msg.content) = Len(requests)
                /\ \A i \in 1..Len(requests) :
                      tool_msg.content[i] = ExpectedResponse(requests[i])
                /\ Len(ToolsRunIn(args.current_turn - 1)) = Len(requests)

C4_Witness ==
    /\ pc = "called"
    /\ Len(turn_log) > 1
    /\ Len(tool_requests_of(generated_msg)) = 2
    /\ tool_requests_of(generated_msg)[1].name # tool_requests_of(generated_msg)[2].name
    /\ Len(Last(args.raw_request.messages).content) = 2

\* C5: a tool request that carries the name a tool of the request is exposed
\* under (the part of its registered name after the last '/') resolves to that
\* tool and runs it: it never ends in a tool resolution failure.
ExposedNames(raw) == {to_tool_definition(raw.tools[i]).name : i \in 1..Len(raw.tools)}
C5_ExposedNameResolves ==
    (pc = "raised" /\ outcome.error = "RuntimeError") =>
        tool_requests_of(generated_msg)[tool_idx].name \notin ExposedNames(raw_request)

\* C6: any two consecutive chunks handed to the callback that share a role
\* carry the same index.
C6_SameRoleSameIndex ==
    \A i \in 1..(Len(delivered) - 1) :
        delivered[i].role = delivered[i + 1].role
            => delivered[i].index = delivered[i + 1].index

\* C7: over the chunks handed to the callback the index starts at 0, never
\* decreases, and grows by exactly one wherever two consecutive chunks differ
\* in role.
C7_IndexFollowsRoleTransitions ==
    /\ Len(delivered) > 0 => delivered[1].index = 0
    /\ \A i \in 1..(Len(delivered) - 1) :
          /\ delivered[i + 1].index >= delivered[i].index
          /\ delivered[i].role # delivered[i + 1].role
                => delivered[i + 1].index = delivered[i].index + 1

C7_Witness ==
    /\ Len(delivered) = 4
    /\ [i \in 1..4 |-> delivered[i].role] = <<"model", "model", "tool", "model">>
    /\ [i \in 1..4 |-> delivered[i].index] = <<0, 0, 1, 2>>

\* C8: the previous-chunks history of every chunk handed to the callback is
\* exactly the chunks handed over before it during the same top-level call,
\* in delivery order.
C8_HistoryIsAllEarlierChunks ==
    \A i \in 1..Len(delivered) :
        delivered[i].previous_chunks = [j \in 1..(i - 1) |-> delivered[j].chunk]

\* C9: the message list a continuation turn is given equals the message list
\* the turn before it was given, followed by the model's message and the tool
\* message.
C9_MessagesAppendOnly ==
    \A k \in 2..Len(turn_log) :
        LET before == turn_log[k - 1].raw_request.messages
            after == turn_log[k].raw_request.messages
        IN  /\ Len(after) = Len(before) + 2
            /\ SubSeq(after, 1, Len(before)) = before
            /\ after[Len(after) - 1].role = "model"
            /\ after[Len(after)].role = "tool"

\* C10: when the caller supplies middleware, every model invocation of the
\* exchange has gone through all of the caller's middleware, in list order.
CallerSupplied ==
    SelectSeq(callerMiddleware, LAMBDA m : m # "augment_with_context")
C10_EveryTurnThroughMiddleware ==
    (Len(turn_log) > 0 /\ ~IsNone(turn_log[1].middleware)) =>
        \A i \in 1..Len(model_calls) :
            SelectSeq(model_calls[i].chain, LAMBDA m : m # "augment_with_context")
                = CallerSupplied

\* the turn's dispatch is under way or has handed over to the model backend
Dispatching == pc \in {"dispatch", "model"}
\* the documents and the model of this turn call for the context middleware
NeedsContextMiddleware ==
    AddsContextMiddleware(raw_request, resolve_parameters(raw_request).model)
IsCallerMiddleware(m) == m # "augment_with_context"

\* C11 as stated: the context middleware is entered before every
\* caller-supplied middleware of the dispatch.
C11_ContextMiddlewareEnteredFirst ==
    \A i \in 1..Len(chain) : \A j \in 1..Len(chain) :
        (i < j /\ chain[j] = "augment_with_context") => ~IsCallerMiddleware(chain[i])

\* C11, amended: when the request carries documents and the model declares no
\* native context support, the context middleware is the last element of the
\* list the turn dispatches through, and no caller-supplied middleware is
\* entered after it: it is entered after every caller-supplied middleware.
C11_ContextMiddlewareEnteredLast ==
    /\ \A i \in 1..Len(chain) : \A j \in 1..Len(chain) :
          (i < j /\ chain[i] = "augment_with_context") => ~IsCallerMiddleware(chain[j])
    /\ (Dispatching /\ NeedsContextMiddleware) =>
          /\ Len(middleware) > 0
          /\ Last(middleware) = "augment_with_context"
    /\ (pc = "model" /\ NeedsContextMiddleware) =>
          /\ chain = middleware
          /\ Last(chain) = "augment_with_context"
    /\ (Dispatching /\ ~NeedsContextMiddleware /\ calls = 1) =>
          \A i \in 1..Len(middleware) : IsCallerMiddleware(middleware[i])

C11_Witness ==
    /\ pc = "model"
    /\ NeedsContextMiddleware
    /\ chain = <<"mwA", "mwB", "augment_with_context">>

\* ---- output configuration of the normalized request ----

\* the turn's model request has been built (apply_format and normalisation ran)
TurnBuilt == pc \in {"dispatch", "model", "tools", "returned"}

\* the output configuration the turn was called with
TurnOutput == Get(args.raw_request.output)

HasOutput == ~IsNone(args.raw_request.output)

FormatApplied == TurnBuilt /\ ~IsNone(formatter)

\* C12: when a Format applies, the normalized request's constrained flag is the
\* flag the request set explicitly, and otherwise the Format's own directive
\* (absent when the Format has none either).
C12_ConstrainedRequestThenFormat ==
    FormatApplied =>
        /\ HasOutput
        /\ request.output.constrained =
              IF ~IsNone(TurnOutput.constrained)
              THEN TurnOutput.constrained
              ELSE FormatConfig(Get(formatter)).constrained

\* the request says unconstrained, the Format says constrained: the request wins
C12_Witness ==
    /\ FormatApplied
    /\ formatter = Some("json")
    /\ TurnOutput.constrained = Some(FALSE)
    /\ FormatConfig("json").constrained = Some(TRUE)
    /\ request.output.constrained = Some(FALSE)

\* the request leaves the flag unset and the Format's directive is used
C12_WitnessFormatDirective ==
    /\ FormatApplied
    /\ formatter = Some("draft")
    /\ IsNone(TurnOutput.constrained)
    /\ request.output.constrained = Some(FALSE)

\* C13: when a Format applies and both the request and the Format give a
\* content type (or a wire-format hint), the normalized request carries the
\* request's explicit value.
C13_ExplicitContentTypeAndFormatWin ==
    FormatApplied =>
        LET config == FormatConfig(Get(formatter))
        IN  /\ (~IsNone(TurnOutput.content_type) /\ ~IsNone(config.content_type))
                => request.output.content_type = TurnOutput.content_type
            /\ (~IsNone(TurnOutput.format) /\ ~IsNone(config.format))
                => request.output.format = TurnOutput.format

\* ---- the aborted error ----

\* r extends the turn's messages with the turn's model message, as the
\* request of the following turn does
StartsFollowingTurn(r) ==
    /\ Len(r.messages) > Len(raw_request.messages)
    /\ SubSeq(r.messages, 1, Len(raw_request.messages)) = raw_request.messages
    /\ r.messages[Len(raw_request.messages) + 1] = generated_msg

\* C14 as stated: the aborted error carries the request that would have
\* started the next turn, that is a request whose messages hold the last model
\* response.
C14_AbortedCarriesNextRequest ==
    Aborted =>
        /\ outcome.message = generated_msg
        /\ ~IsNone(outcome.request)
        /\ StartsFollowingTurn(Get(outcome.request))

\* C14 amended: the aborted error has status ABORTED and carries the last
\* model response, which holds tool requests, together with the normalized
\* request of the turn that produced that response; no tool ran in that turn.
C14_AbortedCarriesCurrentRequest ==
    Aborted =>
        /\ outcome.error = "GenerationResponseError"
        /\ outcome.status = "ABORTED"
        /\ outcome.message = generated_msg
        /\ HasToolRequests(outcome.message)
        /\ outcome.request = Some(request)
        /\ request.messages = raw_request.messages
        /\ ~StartsFollowingTurn(Get(outcome.request))
        /\ ToolsRunIn(args.current_turn) = << >>

\* the bound is exceeded in the second turn: the error's request ends with the
\* first turn's tool-response message
C14_Witness ==
    /\ Aborted
    /\ args.current_turn = 1
    /\ Last(Get(outcome.request).messages).role = "tool"
    /\ HasToolRequests(outcome.message)

\* ---- tool resolution failure ----

ToolNames(raw) == {raw.tools[i] : i \in 1..Len(raw.tools)}

ToolResolutionFailed == pc = "raised" /\ outcome.error = "RuntimeError"

ToolChunks == SelectSeq(delivered, LAMBDA c : c.role = "tool")

\* the tool request the loop of resolve_tool_requests stands at is unknown
AtUnknownToolRequest ==
    /\ pc = "tools"
    /\ tool_idx <= Len(tool_requests_of(generated_msg))
    /\ tool_requests_of(generated_msg)[tool_idx].name \notin ToolNames(raw_request)

\* C15: a tool request whose name is not among the request's tool names fails
\* the exchange with the tool-resolution error. The requests are checked in
\* message order: those before the offending one have run, it and those after
\* it have not; the turn adds no tool message, no tool chunk, no further turn
\* and no further model invocation.
C15_UnknownToolFailsExchange ==
    /\ [](ToolResolutionFailed =>
            LET requests == tool_requests_of(generated_msg)
                ran == ToolsRunIn(args.current_turn)
            IN  /\ tool_idx <= Len(requests)
                /\ requests[tool_idx].name \notin ToolNames(raw_request)
                /\ \A i \in 1..(tool_idx - 1) :
                        requests[i].name \in ToolNames(raw_request)
                /\ Len(ran) = tool_idx - 1
                /\ \A i \in 1..Len(ran) : ran[i].input = requests[i].input
                /\ Len(turn_log) = args.current_turn + 1
                /\ \A i \in 1..Len(model_calls) :
                        model_calls[i].current_turn <= args.current_turn
                /\ Len(ToolChunks) = IF args.on_chunk THEN args.current_turn ELSE 0)
    /\ [][AtUnknownToolRequest =>
            /\ ToolResolutionFailed'
            /\ UNCHANGED <<tool_log, response_parts, delivered, model_calls,
                           turn_log>>]_vars

\* the second of two tool requests is unknown: the first has run, a streaming
\* callback was supplied and got no tool chunk
C15_Witness ==
    /\ ToolResolutionFailed
    /\ tool_idx = 2
    /\ Len(ToolsRunIn(args.current_turn)) = 1
    /\ args.on_chunk
    /\ ToolChunks = << >>

\* the first of two tool requests is unknown and the second is known
C15_WitnessLaterRequestNotRun ==
    /\ ToolResolutionFailed
    /\ tool_idx = 1
    /\ Len(tool_requests_of(generated_msg)) = 2
    /\ tool_requests_of(generated_msg)[2].name \in ToolNames(raw_request)
    /\ ToolsRunIn(args.current_turn) = << >>

\* ---- dispatch through the middleware chain ----

\* s is t with some of its elements left out
IsSubsequence(s, t) ==
    \E keep \in SUBSET (1..Len(t)) :
        LET marked == [i \in 1..Len(t) |-> IF i \in keep THEN <<t[i]>> ELSE << >>]
            kept == SelectSeq(marked, LAMBDA e : e # << >>)
        IN  s = [i \in 1..Len(kept) |-> kept[i][1]]

\* the middleware that passed a modified request on, in the order they did it
Modifiers(r) == r.config

\* the dispatch of this turn ended in a middleware that did not call next
ShortCircuited ==
    /\ pc \in {"tools", "returned", "raised"}
    /\ generated_msg # NoMessage
    /\ ~ModelReplied

\* C16: the middleware are entered in list order, each after the one before
\* it called its continuation; the model backend is invoked after all of them
\* did, with the request as modified along the chain; a middleware that
\* returns without calling its continuation ends the dispatch: no later
\* middleware and no model backend run in that turn, and what it returned is
\* the turn's model response.
C16_DispatchInListOrder ==
    /\ [](Dispatching =>
            /\ index <= Len(middleware)
            /\ chain = SubSeq(middleware, 1, index))
    /\ [](pc = "model" =>
            /\ chain = middleware
            /\ ModelReplied
            /\ Last(model_calls).input = req
            /\ Last(model_calls).chain = middleware
            /\ IsSubsequence(Modifiers(req), SelectSeq(chain, IsCallerMiddleware)))
    /\ [](ShortCircuited =>
            /\ Len(chain) >= 1
            /\ chain = SubSeq(middleware, 1, Len(chain))
            /\ index = Len(chain) - 1
            /\ generated_msg = Message("model", <<TextPart(Last(chain))>>)
            /\ pc = "returned" /\ outcome.message = generated_msg)
    /\ [][(pc = "dispatch" /\ pc' = "model") =>
            /\ chain = middleware
            /\ Len(model_calls') = Len(model_calls) + 1
            /\ Last(model_calls').input = req]_vars
    /\ [][(pc = "dispatch" /\ pc' \notin {"dispatch", "model"}) =>
            /\ index < Len(middleware)
            /\ chain' = Append(chain, middleware[index + 1])
            /\ model_calls' = model_calls]_vars

\* both caller middleware passed a modified request on and the model backend
\* got the request as the second one left it
C16_Witness ==
    /\ pc = "model"
    /\ chain = <<"mwA", "mwB">>
    /\ Last(model_calls).input.config = <<"mwA", "mwB">>

\* the first of two middleware answered by itself
C16_WitnessShortCircuit ==
    /\ ShortCircuited
    /\ middleware = <<"mwA", "mwB">>
    /\ chain = <<"mwA">>
    /\ model_calls = << >>

\* ---- the tool chunk of a continuing turn ----

\* the number of tool chunks delivered before the i-th chunk
ToolChunksBefore(i) ==
    Len(SelectSeq(SubSeq(delivered, 1, i - 1), LAMBDA c : c.role = "tool"))

\* the tool-response message that turn k was started with
ToolMessageOf(k) == Last(turn_log[k].raw_request.messages)

\* C17: with a streaming callback every continuing turn delivers exactly one
\* chunk of role tool with the content of its tool-response message, after the
\* turn's model chunks and before the chunks of the next turn; a turn that
\* ends the call delivers none; without a callback nothing is delivered; the
\* callback is invoked once per chunk, in the order the chunks are produced.
C17_OneToolChunkPerContinuingTurn ==
    /\ []((Len(turn_log) > 0 /\ ~args.on_chunk) => delivered = << >>)
    /\ []((Len(turn_log) > 0 /\ args.on_chunk) =>
            /\ Len(ToolChunks) = Len(turn_log) - 1
            /\ \A k \in 1..Len(ToolChunks) :
                    /\ ToolMessageOf(k + 1).role = "tool"
                    /\ ToolChunks[k].chunk.content = ToolMessageOf(k + 1).content
            /\ \A i \in 1..Len(delivered) :
                    delivered[i].role = "model" =>
                        ToolChunksBefore(i) = delivered[i].chunk.content[1])
    /\ [][\/ delivered' = delivered
          \/ /\ Len(delivered') = Len(delivered) + 1
             /\ SubSeq(delivered', 1, Len(delivered)) = delivered
          \/ /\ pc \in {"idle", "returned", "raised"}
             /\ delivered' = << >>]_vars

\* two continuing turns, each with a model chunk before its tool chunk, then a
\* model chunk of the third turn, which is aborted and adds no tool chunk
C17_Witness ==
    /\ Aborted
    /\ Len(delivered) = 5
    /\ [i \in 1..5 |-> delivered[i].role] = <<"model", "tool", "model", "tool", "model">>
    /\ delivered[5].chunk.content[1] = 2

\* ---- the caller's request object ----

\* the request as the caller passed it to the top-level call
PassedRequest == turn_log[1].raw_request

\* C18: the request object the caller passed keeps its message list and its
\* output configuration through the whole call, with and without an output
\* format and over any number of turns: the format is applied to a deep copy,
\* and a continuation works on a new request object with a new message list.
C18_CallerRequestNotMutated ==
    Len(turn_log) > 0 =>
        /\ callerRequest.messages = PassedRequest.messages
        /\ callerRequest.output = PassedRequest.output
        /\ callerRequest = PassedRequest
        /\ FormatApplied => shares = NoCallerObject
        /\ Len(turn_log) > 1 => (~shares.self /\ ~shares.messages)

\* a format was applied in each of three turns, changing the output
\* configuration and the messages of the turn's request
C18_Witness ==
    /\ Len(turn_log) = 3
    /\ FormatApplied
    /\ raw_request.output # PassedRequest.output
    /\ Len(raw_request.messages) = Len(PassedRequest.messages) + 4
    /\ callerRequest = PassedRequest

\* ---- termination ----

Running == pc \in {"called", "dispatch", "model", "tools"}

Ended == pc \in {"returned", "raised"}

\* the number of turns a call with this request can take
TurnBound(raw) == IF max_iters(raw) >= 0 THEN max_iters(raw) + 1 ELSE 1

\* C19: when every model, middleware and tool invocation returns, every
\* top-level call ends, with a response or an error, whatever the model
\* replies; the number of turns, and so of model invocations, is bounded by a
\* function of max_turns.
C19_EveryCallTerminates ==
    /\ [](Len(turn_log) > 0 =>
            /\ Len(turn_log) <= TurnBound(PassedRequest)
            /\ Len(model_calls) <= Len(turn_log))
    /\ (Running ~> Ended)

\* the model asked for a tool in every reply of a call without max_turns
C19_Witness ==
    /\ Aborted
    /\ IsNone(PassedRequest.max_turns)
    /\ Len(model_calls) = DEFAULT_MAX_TURNS + 1
    /\ Len(tool_log) = DEFAULT_MAX_TURNS

\* ---- the run context ----

\* C20: every model invocation of the exchange is given the run context the
\* caller passed to the top-level call, on continuation turns as on the first.
C20_ContextOnEveryModelInvocation ==
    \A i \in 1..Len(model_calls) :
        model_calls[i].context = turn_log[1].context

\* ---- the caller's middleware list ----

ContextMiddlewareIn(list) ==
    Len(SelectSeq(list, LAMBDA m : m = "augment_with_context"))

\* C21: a call leaves the list object the caller passes as middleware with the
\* elements it had: no context-injection middleware accumulates in it over
\* repeated calls, and no dispatch runs the context injection more than once.
C21_CallerMiddlewareListUnchanged ==
    /\ callerMiddleware \in CallerMiddlewareLists
    /\ ContextMiddlewareIn(callerMiddleware) = 0
    /\ \A i \in 1..Len(model_calls) :
            ContextMiddlewareIn(model_calls[i].chain) <= 1

\* the second call that reuses the list runs the context injection twice
C21_InjectionRunsTwice ==
    /\ calls = 2
    /\ pc = "model"
    /\ ContextMiddlewareIn(chain) = 2
    /\ ContextMiddlewareIn(callerMiddleware) = 2

====
